---- MODULE Spec2Model ----
(***************************************************************************)
(* Model of magikeda.geo.plot_path_from_above (the bounding box computed   *)
(* before a path is drawn), of magikeda.bivar.plot_mouse_over_scatter (the *)
(* annotations shown when the mouse is over a point) and of                *)
(* magikeda.univar.plot_dataframe_profile (the columns kept and the grid   *)
(* of subplots).                                                           *)
(*                                                                         *)
(* Numbers.  A coordinate is a Python float.  It is modelled exactly, as   *)
(* an integer count of 1/Scale degree.  The inputs are multiples of a      *)
(* tenth of a degree and the float aspect ratios are multiples of 1/4, so  *)
(* every product and quotient the code computes is a whole number of       *)
(* units: the arithmetic of the model is the arithmetic of the code with   *)
(* no rounding.  padding is a float, as the docstring types it             *)
(* (geo.py:31); an int padding is not modelled.                            *)
(*                                                                         *)
(* A Python value that is not a float is carried with its type: the nan    *)
(* that Series.min() gives for an empty series, a one-character str        *)
(* unpacked from a four-character string, None for a local that was never  *)
(* assigned, and TypeError for the result of an operation Python refuses.  *)
(***************************************************************************)
EXTENDS Integers, Sequences, FiniteSets, TLC

Tenth == 16 * 16
Scale == 10 * Tenth

\* ------------------------------------------------------------- bounds
MaxPoints == 3
MaxPadding == 2
MaxRatioQ == 4
MaxScatter == 2
GridMax == 2
PickRadius == 1
MaxCols == 6
MaxInclude == 2
MaxCallPoints == 2

\* ------------------------------------------------------ Python values
F(v) == [t |-> "float", v |-> v]
NaN == [t |-> "nan", v |-> 0]
Chr(i) == [t |-> "str", v |-> i]
NoneV == [t |-> "None", v |-> 0]
TypeError == [t |-> "TypeError", v |-> 0]

IsNum(a) == a.t \in {"float", "nan"}

\* a - b
Sub(a, b) ==
    IF a.t = "float" /\ b.t = "float" THEN F(a.v - b.v)
    ELSE IF IsNum(a) /\ IsNum(b) THEN NaN
    ELSE TypeError

\* a + b
Add(a, b) ==
    IF a.t = "float" /\ b.t = "float" THEN F(a.v + b.v)
    ELSE IF IsNum(a) /\ IsNum(b) THEN NaN
    ELSE TypeError

\* np.abs(a)
Abs(a) ==
    IF a.t = "float" THEN F(IF a.v < 0 THEN -a.v ELSE a.v)
    ELSE IF a.t = "nan" THEN NaN
    ELSE TypeError

\* a * num / den, for the float a and the rational num/den
MulFrac(a, num, den) ==
    IF a.t = "float" THEN F((a.v * num) \div den)
    ELSE IF a.t = "nan" THEN NaN
    ELSE TypeError

\* a * 3/4
ThreeQuarters(a) == MulFrac(a, 3, 4)

\* The aspect_ratio argument: a str, a float (n quarters), an int (n) or a
\* tuple of floats.
PyStr(s) == [type |-> "str", s |-> s, n |-> 0, items |-> <<>>]
PyFloat(q) == [type |-> "float", s |-> "", n |-> q, items |-> <<>>]
PyInt(n) == [type |-> "int", s |-> "", n |-> n, items |-> <<>>]
PyTuple(items) == [type |-> "tuple", s |-> "", n |-> 0, items |-> items]

\* len(aspect_ratio): a number has no len()
PyLen(ar) ==
    IF ar.type = "str" THEN Len(ar.s)
    ELSE IF ar.type = "tuple" THEN Len(ar.items)
    ELSE -1

\* the four values that "min_lat, max_lat, min_lon, max_lon = aspect_ratio"
\* unpacks: the items of a tuple, the characters of a str
Unpack(ar) ==
    IF ar.type = "tuple" THEN ar.items
    ELSE [i \in 1..4 |-> Chr(i)]

Box(a, b, c, d) == [min_lat |-> a, max_lat |-> b, min_lon |-> c, max_lon |-> d]
NoBox == Box(NoneV, NoneV, NoneV, NoneV)

HasTypeError(b) ==
    TypeError \in {b.min_lat, b.max_lat, b.min_lon, b.max_lon}

\* --------------------------------------------------------- the inputs
\* points of the path, (lon, lat) in tenths of a degree
PathPoints ==
    { <<-22, 412>>, <<-14, 411>>, <<-18, 416>>, <<-36, 425>>, <<-31, 433>> }

SeriesPairs ==
    UNION { [1..n -> PathPoints] : n \in 0..MaxPoints }

LonOf(ps) == [i \in 1..Len(ps) |-> F(ps[i][1] * Tenth)]
LatOf(ps) == [i \in 1..Len(ps) |-> F(ps[i][2] * Tenth)]

Paddings == { F(p * Scale) : p \in 0..MaxPadding }

BoxLats == { F(40 * Scale), F(42 * Scale) }
BoxLons == { F(-3 * Scale), F(0) }

AspectRatios ==
    { PyStr(s) : s \in {"fit_extremities", "square", "wide", "box"} }
    \cup { PyFloat(q) : q \in (-MaxRatioQ)..MaxRatioQ }
    \cup { PyFloat(-12) }
    \cup { PyInt(1) }
    \cup { PyTuple(<<a, b, c, d>>) : a \in BoxLats, b \in BoxLats,
                                      c \in BoxLons, d \in BoxLons }
    \cup { PyTuple(<<F(40 * Scale), F(42 * Scale), F(0)>>) }

ShowMaps == BOOLEAN

\* ------------------------------------------------------------- state
VARIABLES
    lon, lat,        \* the two series of the path (arguments, never assigned)
    padding,         \* argument of the last call
    show_map,        \* argument of the last call
    aspect_ratio,    \* argument of the last call
    pc,              \* "idle" before the first call, then how the last call
                     \* ended: "returned" or "raised"
    extremes,        \* the locals after lines 52-55
    aspect_box,      \* the locals after the if/elif chain, lines 59-83
    box,             \* the locals after the padding, lines 87-90
    error,           \* the exception the last call raised, or "none"
    basemap,         \* the corners the last call gave to Basemap, or NoBox
    scattered,       \* whether the last call drew the points
    first_call,      \* history: the arguments and the outcome of the first
                     \* call, and whether a call with other arguments followed
    points_with_annotation,  \* bivar: the positions of the drawn points
    visible,         \* bivar: the visibility of each point's annotation
    connected,       \* bivar: whether on_move is registered
    event,           \* bivar: the last motion event handled, or NoEvent
    data_frame,      \* univar: the column names of the data frame, in order
    include_cols,    \* univar: argument of the call
    exclude_cols,    \* univar: argument of the call
    shape,           \* univar: argument of the call
    columns_kept,    \* univar: the local after lines 238-246
    grid,            \* univar: rows and cols given to GridSpec, line 263
    plotted,         \* univar: the columns a subplot was created for, line 269
    profile_error,   \* univar: the exception the call raised, or "none"
    profile_pc       \* univar: "idle", then "returned" or "raised"

geoVars == << lon, lat, padding, show_map, aspect_ratio, pc, extremes,
              aspect_box, box, error, basemap, scattered, first_call >>
bivarVars == << points_with_annotation, visible, connected, event >>
univarVars == << data_frame, include_cols, exclude_cols, shape, columns_kept,
                 grid, plotted, profile_error, profile_pc >>
vars == << geoVars, bivarVars, univarVars >>

InvalidAspectRatio == "Invalid value for parameter aspect_ratio"

\* ---------------------------------------------- plot_path_from_above
RECURSIVE SeqMin(_), SeqMax(_)
SeqMin(s) ==
    IF Len(s) = 1 THEN s[1].v
    ELSE LET m == SeqMin(Tail(s)) IN IF s[1].v < m THEN s[1].v ELSE m
SeqMax(s) ==
    IF Len(s) = 1 THEN s[1].v
    ELSE LET m == SeqMax(Tail(s)) IN IF s[1].v > m THEN s[1].v ELSE m

\* Series.min(), Series.max(): nan for an empty series
SeriesMin(s) == IF Len(s) = 0 THEN NaN ELSE F(SeqMin(s))
SeriesMax(s) == IF Len(s) = 0 THEN NaN ELSE F(SeqMax(s))

\* latitude and longitude taken from the wrong series
ExtremesSwapped(lo, la) ==
    Box(SeriesMin(lo), SeriesMax(lo), SeriesMin(la), SeriesMax(la))

Extremes(lo, la) ==
    Box(SeriesMin(la), SeriesMax(la), SeriesMin(lo), SeriesMax(lo))

\* min_lat + np.abs(max_lon - min_lon) * 3/4
FullHeightMaxLat(b) ==
    Add(b.min_lat, ThreeQuarters(Abs(Sub(b.max_lon, b.min_lon))))

\* the 3/4 between the two scales forgotten
SquareBoxNoFactor(e) ==
    [e EXCEPT !.max_lat = Add(e.min_lat, Abs(Sub(e.max_lon, e.min_lon)))]

SquareBox(e) == [e EXCEPT !.max_lat = FullHeightMaxLat(e)]

\* x * (0.5 - aspect_ratio/2), for aspect_ratio = q/4
HalfMinusHalfRatio(x, q) == MulFrac(x, 4 - q, 8)

\* both shifts computed from the full-height span
RatioBoxSymmetric(e, q) ==
    LET b1 == [e EXCEPT !.max_lat = FullHeightMaxLat(e)]
        shift == HalfMinusHalfRatio(Abs(Sub(b1.max_lat, b1.min_lat)), q)
    IN  [b1 EXCEPT !.min_lat = Add(b1.min_lat, shift),
                   !.max_lat = Sub(b1.max_lat, shift)]

\* the three assignments of lines 73-75, in their order
RatioBox(e, q) ==
    LET b1 == [e EXCEPT !.max_lat = FullHeightMaxLat(e)]
        b2 == [b1 EXCEPT !.min_lat =
                 Add(b1.min_lat,
                     HalfMinusHalfRatio(Abs(Sub(b1.max_lat, b1.min_lat)), q))]
        b3 == [b2 EXCEPT !.max_lat =
                 Sub(b2.max_lat,
                     HalfMinusHalfRatio(Abs(Sub(b2.max_lat, b2.min_lat)), q))]
    IN  b3

ExplicitBox(ar) ==
    LET u == Unpack(ar) IN Box(u[1], u[2], u[3], u[4])

\* the if/elif chain: the locals it leaves and the exception it raises
AspectStep(e, ar) ==
    IF ar = PyStr("fit_extremities") THEN [box |-> e, error |-> "none"]
    ELSE IF ar = PyStr("square") THEN [box |-> SquareBox(e), error |-> "none"]
    ELSE IF ar.type = "float" THEN [box |-> RatioBox(e, ar.n), error |-> "none"]
    ELSE IF PyLen(ar) < 0 THEN [box |-> e, error |-> "TypeError"]
    ELSE IF PyLen(ar) = 4 THEN [box |-> ExplicitBox(ar), error |-> "none"]
    ELSE [box |-> e, error |-> InvalidAspectRatio]

\* the same padding on both axes
PaddingStepNoFactor(b, p) ==
    Box(Sub(b.min_lat, p), Add(b.max_lat, p), Sub(b.min_lon, p), Add(b.max_lon, p))

\* lines 87-90
PaddingStep(b, p) ==
    Box(Sub(b.min_lat, ThreeQuarters(p)),
        Add(b.max_lat, ThreeQuarters(p)),
        Sub(b.min_lon, p),
        Add(b.max_lon, p))

NoCall ==
    [made |-> FALSE, others |-> FALSE,
     padding |-> NoneV, show_map |-> FALSE, aspect_ratio |-> PyStr(""),
     box |-> NoBox, error |-> "none", basemap |-> NoBox]

\* the call with the padding taken off the longitudes in place
plot_path_from_above_InPlace(p, sm, ar) ==
    LET e == Extremes(lon, lat)
        a == AspectStep(e, ar)
        b == PaddingStep(a.box, p)
    IN  /\ padding' = p
        /\ show_map' = sm
        /\ aspect_ratio' = ar
        /\ extremes' = e
        /\ IF a.error # "none"
           THEN /\ aspect_box' = NoBox
                /\ box' = NoBox
                /\ error' = a.error
                /\ pc' = "raised"
                /\ basemap' = NoBox
                /\ scattered' = FALSE
           ELSE IF HasTypeError(b)
           THEN /\ aspect_box' = a.box
                /\ box' = NoBox
                /\ error' = "TypeError"
                /\ pc' = "raised"
                /\ basemap' = NoBox
                /\ scattered' = FALSE
           ELSE /\ aspect_box' = a.box
                /\ box' = b
                /\ error' = "none"
                /\ pc' = "returned"
                /\ basemap' = IF sm THEN b ELSE NoBox
                /\ scattered' = TRUE
        /\ first_call' =
             IF ~first_call.made
             THEN [made |-> TRUE, others |-> FALSE,
                   padding |-> p, show_map |-> sm, aspect_ratio |-> ar,
                   box |-> box', error |-> error', basemap |-> basemap']
             ELSE [first_call EXCEPT !.others =
                     @ \/ << p, sm, ar >> # << first_call.padding,
                                              first_call.show_map,
                                              first_call.aspect_ratio >>]
        /\ lon' = [i \in 1..Len(lon) |-> Sub(lon[i], p)]
        /\ lat' = lat
        /\ UNCHANGED bivarVars
        /\ UNCHANGED univarVars

\* One call, whole: extremes, aspect, padding, drawing.
plot_path_from_above(p, sm, ar) ==
    LET e == Extremes(lon, lat)
        a == AspectStep(e, ar)
        b == PaddingStep(a.box, p)
    IN  /\ padding' = p
        /\ show_map' = sm
        /\ aspect_ratio' = ar
        /\ extremes' = e
        /\ IF a.error # "none"
           THEN /\ aspect_box' = NoBox
                /\ box' = NoBox
                /\ error' = a.error
                /\ pc' = "raised"
                /\ basemap' = NoBox
                /\ scattered' = FALSE
           ELSE IF HasTypeError(b)
           THEN /\ aspect_box' = a.box
                /\ box' = NoBox
                /\ error' = "TypeError"
                /\ pc' = "raised"
                /\ basemap' = NoBox
                /\ scattered' = FALSE
           ELSE /\ aspect_box' = a.box
                /\ box' = b
                /\ error' = "none"
                /\ pc' = "returned"
                /\ basemap' = IF sm THEN b ELSE NoBox
                /\ scattered' = TRUE
        /\ first_call' =
             IF ~first_call.made
             THEN [made |-> TRUE, others |-> FALSE,
                   padding |-> p, show_map |-> sm, aspect_ratio |-> ar,
                   box |-> box', error |-> error', basemap |-> basemap']
             ELSE [first_call EXCEPT !.others =
                     @ \/ << p, sm, ar >> # << first_call.padding,
                                              first_call.show_map,
                                              first_call.aspect_ratio >>]
        /\ UNCHANGED << lon, lat >>
        /\ UNCHANGED bivarVars
        /\ UNCHANGED univarVars

\* before the first call: the arguments hold the defaults of the signature
GeoIdle(ps) ==
    /\ lon = LonOf(ps)
    /\ lat = LatOf(ps)
    /\ padding = F(Scale)
    /\ show_map = TRUE
    /\ aspect_ratio = PyFloat(3)
    /\ pc = "idle"
    /\ extremes = NoBox
    /\ aspect_box = NoBox
    /\ box = NoBox
    /\ error = "none"
    /\ basemap = NoBox
    /\ scattered = FALSE
    /\ first_call = NoCall

InitGeo == \E ps \in SeriesPairs : GeoIdle(ps)

\* ------------------------------------------- plot_mouse_over_scatter
\* positions on the canvas, of a point and of the mouse
Coords == 0..GridMax
Positions == { [x |-> i, y |-> j] : i \in Coords, j \in Coords }
NoEvent == [x |-> -1, y |-> -1]

CoordLists == UNION { [1..n -> Coords] : n \in 0..MaxScatter }

\* point.contains(event)[0]: the mouse is within the pick radius of the point
Contains(point, ev) ==
    (point.x - ev.x) * (point.x - ev.x) + (point.y - ev.y) * (point.y - ev.y)
        <= PickRadius * PickRadius

\* the body of the loop of on_move, for one [point, annotation] pair
OnMoveNeverHides(point, vis, ev) ==
    LET should_be_visible == Contains(point, ev)
    IN  IF should_be_visible /\ ~vis THEN should_be_visible ELSE vis

OnMoveOne(point, vis, ev) ==
    LET should_be_visible == (Contains(point, ev) = TRUE)
    IN  IF should_be_visible # vis THEN should_be_visible ELSE vis

\* the loop of on_move over points_with_annotation
RECURSIVE OnMoveLoop(_, _, _, _)
OnMoveLoop(pts, vis, ev, i) ==
    IF i > Len(pts) THEN vis
    ELSE OnMoveLoop(pts, [vis EXCEPT ![i] = OnMoveOne(pts[i], vis[i], ev)],
                    ev, i + 1)

\* lines 76-101 and 121-125: draw each point with a hidden annotation, then
\* register on_move
plot_mouse_over_scatter(x, y) ==
    /\ ~connected
    /\ Len(x) = Len(y)
    /\ points_with_annotation' = [i \in 1..Len(x) |-> [x |-> x[i], y |-> y[i]]]
    /\ visible' = [i \in 1..Len(x) |-> FALSE]
    /\ connected' = TRUE
    /\ event' = NoEvent
    /\ UNCHANGED geoVars
    /\ UNCHANGED univarVars

\* a motion_notify_event reaches the registered handler
on_move(ev) ==
    /\ connected
    /\ visible' = OnMoveLoop(points_with_annotation, visible, ev, 1)
    /\ event' = ev
    /\ UNCHANGED << points_with_annotation, connected >>
    /\ UNCHANGED geoVars
    /\ UNCHANGED univarVars

InitBivar ==
    /\ points_with_annotation = << >>
    /\ visible = << >>
    /\ connected = FALSE
    /\ event = NoEvent

\* -------------------------------------------- plot_dataframe_profile
\* the names the columns of a data frame are taken from
AllColumns ==
    << "Var 1", "Var 2", "Var 3", "Var 4", "Var 5", "Var 6", "Var 7", "Var 8" >>

DataFrames == { SubSeq(AllColumns, 1, n) : n \in 0..MaxCols }

Range(q) == { q[i] : i \in 1..Len(q) }

\* an optional list argument: None, or the list
NoList == [none |-> TRUE, v |-> << >>, members |-> {}]
List(q) == [none |-> FALSE, v |-> q, members |-> Range(q)]
NameSet(m) == [none |-> FALSE, v |-> << >>, members |-> m]

\* the shape argument: None, or (rows, cols)
NoShape == [none |-> TRUE, rows |-> 0, cols |-> 0]
Shape(r, c) == [none |-> FALSE, rows |-> r, cols |-> c]
Shapes == { NoShape, Shape(1, 1), Shape(2, 3) }

\* include_cols: None, or a list of distinct columns of the data frame
IncludeLists(df) ==
    { NoList } \cup
    { List(q) : q \in { q \in UNION { [1..n -> Range(df)] : n \in 0..MaxInclude } :
                          \A i, j \in 1..Len(q) : q[i] = q[j] => i = j } }

\* exclude_cols: None, or a list of columns (only membership is used)
ExcludeLists(df) == { NoList } \cup { NameSet(m) : m \in SUBSET Range(df) }

RECURSIVE Filter(_, _)
\* [x for x in q if x not in out]
Filter(q, out) ==
    IF q = << >> THEN << >>
    ELSE IF Head(q) \in out THEN Filter(Tail(q), out)
    ELSE << Head(q) >> \o Filter(Tail(q), out)

\* exclude_cols ignored when include_cols is given
ColumnsKeptIncludeWins(df, inc, exc) ==
    IF ~inc.none THEN inc.v
    ELSE IF ~exc.none THEN Filter(df, exc.members) ELSE df

\* lines 237-246
ColumnsKept(df, inc, exc) ==
    LET kept == IF ~inc.none THEN inc.v ELSE df
    IN  IF ~exc.none THEN Filter(kept, exc.members) ELSE kept

\* int(math.ceil(math.sqrt(n)))
CeilSqrt(n) == CHOOSE c \in 0..n : c * c >= n /\ \A d \in 0..(c - 1) : d * d < n

\* int(math.ceil(n / float(c))), c > 0
CeilDiv(n, c) == (n + c - 1) \div c

NoGrid == [rows |-> -1, cols |-> -1]

\* lines 251-260: the rows and cols of the grid, or the exception raised
GridOf(n, sh) ==
    IF ~sh.none THEN [rows |-> sh.rows, cols |-> sh.cols, error |-> "none"]
    ELSE LET cols == CeilSqrt(n)
         IN  IF cols = 0
             THEN [rows |-> -1, cols |-> cols, error |-> "ZeroDivisionError"]
             ELSE [rows |-> CeilDiv(n, cols), cols |-> cols, error |-> "none"]

\* One call, whole: the columns kept, the grid, one subplot per column; gs[col_idx]
\* raises IndexError beyond the cells of the grid.
plot_dataframe_profile(inc, exc, sh) ==
    LET kept == ColumnsKept(data_frame, inc, exc)
        n == Len(kept)
        g == GridOf(n, sh)
        cells == g.rows * g.cols
    IN  /\ include_cols' = inc
        /\ exclude_cols' = exc
        /\ shape' = sh
        /\ columns_kept' = kept
        /\ IF g.error # "none"
           THEN /\ grid' = NoGrid
                /\ plotted' = << >>
                /\ profile_error' = g.error
                /\ profile_pc' = "raised"
           ELSE IF n > cells
           THEN /\ grid' = [rows |-> g.rows, cols |-> g.cols]
                /\ plotted' = SubSeq(kept, 1, cells)
                /\ profile_error' = "IndexError"
                /\ profile_pc' = "raised"
           ELSE /\ grid' = [rows |-> g.rows, cols |-> g.cols]
                /\ plotted' = kept
                /\ profile_error' = "none"
                /\ profile_pc' = "returned"
        /\ UNCHANGED data_frame
        /\ UNCHANGED geoVars
        /\ UNCHANGED bivarVars

\* before the call: the arguments hold the defaults of the signature
ProfileIdle(df) ==
    /\ data_frame = df
    /\ include_cols = NoList
    /\ exclude_cols = NoList
    /\ shape = NoShape
    /\ columns_kept = << >>
    /\ grid = NoGrid
    /\ plotted = << >>
    /\ profile_error = "none"
    /\ profile_pc = "idle"

InitUnivar == ProfileIdle(<< >>)

\* ------------------------------------------------- specifications
Init == InitGeo /\ InitBivar /\ InitUnivar

\* one call of the function on the inputs drawn
Next ==
    /\ pc = "idle"
    /\ \E p \in Paddings, sm \in ShowMaps, ar \in AspectRatios :
           plot_path_from_above(p, sm, ar)

Spec == Init /\ [][Next]_vars

InitScatter == GeoIdle(<< >>) /\ InitBivar /\ InitUnivar

NextScatter ==
    \/ \E x \in CoordLists, y \in CoordLists : plot_mouse_over_scatter(x, y)
    \/ \E ev \in Positions : on_move(ev)

SpecBivar == InitScatter /\ [][NextScatter]_vars

InitProfile ==
    /\ GeoIdle(<< >>)
    /\ InitBivar
    /\ \E df \in DataFrames : ProfileIdle(df)

\* one call of the function on the data frame drawn
NextProfile ==
    /\ profile_pc = "idle"
    /\ \E inc \in IncludeLists(data_frame), exc \in ExcludeLists(data_frame),
          sh \in Shapes :
           plot_dataframe_profile(inc, exc, sh)

SpecProfile == InitProfile /\ [][NextProfile]_vars

\* the arguments of a sequence of calls on one path
CallSeries == { ps \in SeriesPairs : Len(ps) <= MaxCallPoints }
CallPaddings == { F(0), F(Scale) }
CallAspectRatios ==
    { PyStr("fit_extremities"), PyStr("square"), PyFloat(2), PyStr("box"),
      PyTuple(<< F(40 * Scale), F(42 * Scale), F(-3 * Scale), F(0) >>) }

InitCalls ==
    /\ \E ps \in CallSeries : GeoIdle(ps)
    /\ InitBivar
    /\ InitUnivar

\* call after call, each with its own arguments
NextCalls ==
    \E p \in CallPaddings, ar \in CallAspectRatios :
        plot_path_from_above(p, TRUE, ar)

SpecCalls == InitCalls /\ [][NextCalls]_vars

\* ------------------------------------------------------------ claims
NonEmpty == Len(lon) > 0 /\ Len(lat) > 0

IsMinOf(x, s) ==
    /\ \E i \in 1..Len(s) : s[i] = x
    /\ \A i \in 1..Len(s) : x.v <= s[i].v

IsMaxOf(x, s) ==
    /\ \E i \in 1..Len(s) : s[i] = x
    /\ \A i \in 1..Len(s) : x.v >= s[i].v

FitExtremities == aspect_ratio = PyStr("fit_extremities")
Square == aspect_ratio = PyStr("square")
Ratio == aspect_ratio.type = "float"
Explicit == aspect_ratio.type = "tuple" /\ Len(aspect_ratio.items) = 4

\* h hundredths of a degree
Deg100(h) == F((h * Scale) \div 100)

\* C1: for a non-empty path, a call with 'fit_extremities' and padding 0
\* returns, and its box is the least and greatest latitude and the least
\* and greatest longitude of the points.
C1_FitExtremitiesNoPadding ==
    (pc # "idle" /\ NonEmpty /\ FitExtremities /\ padding = F(0))
    => /\ pc = "returned"
       /\ IsMinOf(box.min_lat, lat)
       /\ IsMaxOf(box.max_lat, lat)
       /\ IsMinOf(box.min_lon, lon)
       /\ IsMaxOf(box.max_lon, lon)

C1_Witness ==
    /\ pc = "returned" /\ FitExtremities /\ padding = F(0)
    /\ Len(lat) = 3
    /\ box.min_lat # box.max_lat
    /\ box.min_lon # box.max_lon
    /\ box.min_lat # lat[1] /\ box.max_lat # lat[1]

\* C2: a call with a 4-tuple returns exactly the tuple as its box, whatever
\* the padding.
C2_ExplicitBoxUnchanged ==
    (pc # "idle" /\ NonEmpty /\ Explicit)
    => /\ pc = "returned"
       /\ box = Box(aspect_ratio.items[1], aspect_ratio.items[2],
                    aspect_ratio.items[3], aspect_ratio.items[4])

\* C3: with a float aspect ratio r in {0.25, 0.5, 0.75, 1.0} and a path of
\* non-zero longitude span, the latitude span left by the aspect step is
\* r * |max_lon - min_lon| * 3/4, to within one unit.
C3_RatioSpan ==
    (/\ pc = "returned" /\ NonEmpty /\ Ratio
     /\ aspect_ratio.n \in 1..4
     /\ extremes.min_lon # extremes.max_lon)
    => LET span == aspect_box.max_lat.v - aspect_box.min_lat.v
           full == ThreeQuarters(Abs(Sub(extremes.max_lon, extremes.min_lon))).v
           diff == 4 * span - aspect_ratio.n * full
       IN  diff \in -4..4

C6_EmptyInputRaises ==
    (/\ pc # "idle" /\ Len(lon) = 0 /\ Len(lat) = 0
     /\ (FitExtremities \/ Square \/ Ratio \/ Explicit))
    => /\ pc = "raised"
       /\ error = "EmptyInput"
       /\ box = NoBox
       /\ basemap = NoBox

\* C7: a call with a float aspect ratio r <= 0 raises the invalid
\* aspect ratio error and computes no box.
C7_NonPositiveRatioRaises ==
    (pc # "idle" /\ NonEmpty /\ Ratio /\ aspect_ratio.n <= 0)
    => /\ pc = "raised"
       /\ error = InvalidAspectRatio
       /\ box = NoBox

\* C8: a call whose aspect_ratio is none of 'fit_extremities', 'square', a
\* float, a 4-element box raises the invalid aspect ratio error before the
\* padding and the drawing.
C8_UnknownPolicyRaises ==
    (/\ pc # "idle" /\ NonEmpty
     /\ ~FitExtremities /\ ~Square /\ ~Ratio /\ ~Explicit)
    => /\ pc = "raised"
       /\ error = InvalidAspectRatio
       /\ aspect_box = NoBox
       /\ box = NoBox
       /\ basemap = NoBox
       /\ ~scattered

\* C9: a call with a 4-tuple whose min_lat >= max_lat or min_lon >= max_lon
\* raises the invalid aspect ratio error; the box is neither returned nor
\* given to the renderer.
C9_DegenerateExplicitRaises ==
    (/\ pc # "idle" /\ NonEmpty /\ Explicit
     /\ \/ aspect_ratio.items[1].v >= aspect_ratio.items[2].v
        \/ aspect_ratio.items[3].v >= aspect_ratio.items[4].v)
    => /\ pc = "raised"
       /\ error = InvalidAspectRatio
       /\ box = NoBox
       /\ basemap = NoBox

\* C10: the annotations are all hidden until the first motion event, and
\* after on_move has handled an event each annotation is visible exactly
\* when its point contains the position of that event.
C10_VisibleIffContains ==
    /\ Len(visible) = Len(points_with_annotation)
    /\ event = NoEvent => \A i \in 1..Len(visible) : ~visible[i]
    /\ event # NoEvent =>
          \A i \in 1..Len(visible) :
              visible[i] <=>
                  (points_with_annotation[i].x - event.x)
                      * (points_with_annotation[i].x - event.x)
                  + (points_with_annotation[i].y - event.y)
                      * (points_with_annotation[i].y - event.y)
                  <= PickRadius * PickRadius

\* an event handled near the first point but not on it, and outside the
\* second point: the first annotation is shown, the second is not
C10_Witness ==
    /\ event # NoEvent
    /\ Len(visible) = 2
    /\ visible[1] /\ ~visible[2]
    /\ points_with_annotation[1] # event

\* C11: with shape not given, for every number n of kept columns, n = 0
\* included, the call lays out a grid with cols = ceil(sqrt(n)) and
\* rows = ceil(n / cols): rows * cols >= n and (rows - 1) * cols < n.
C11_GridFitsColumns ==
    (profile_pc # "idle" /\ shape.none)
    => LET n == Len(columns_kept)
       IN  /\ profile_error = "none"
           /\ grid.cols * grid.cols >= n
           /\ (grid.cols = 0 \/ (grid.cols - 1) * (grid.cols - 1) < n)
           /\ grid.rows * grid.cols >= n
           /\ (grid.rows - 1) * grid.cols < n

\* the columns the call is asked for: include_cols, or all of the data frame
AskedFor == IF include_cols.none THEN data_frame ELSE include_cols.v

\* the positions in AskedFor of the columns that are not excluded
KeptAt == { i \in 1..Len(AskedFor) : AskedFor[i] \notin exclude_cols.members }

\* the j-th of them
NthKept(j) == CHOOSE i \in KeptAt : Cardinality({ k \in KeptAt : k <= i }) = j

\* C12: a subplot is never created for a column of exclude_cols; the
\* subplots are created in the order of include_cols (of the data frame when
\* include_cols is None), and a call that returns has created one for each
\* column that is not excluded.
C12_PlottedAreKept ==
    /\ \A j \in 1..Len(plotted) : plotted[j] \notin exclude_cols.members
    /\ Len(plotted) <= Cardinality(KeptAt)
    /\ \A j \in 1..Len(plotted) : plotted[j] = AskedFor[NthKept(j)]
    /\ profile_pc = "returned" => Len(plotted) = Cardinality(KeptAt)

C12_Witness ==
    /\ profile_pc = "returned"
    /\ ~include_cols.none /\ ~exclude_cols.none
    /\ Len(include_cols.v) = 2
    /\ include_cols.v[1] \in exclude_cols.members
    /\ include_cols.v[2] \notin exclude_cols.members
    /\ include_cols.v[2] = data_frame[1]
    /\ plotted = << include_cols.v[2] >>

LonSpan ==
    IF extremes.max_lon.v >= extremes.min_lon.v
    THEN extremes.max_lon.v - extremes.min_lon.v
    ELSE extremes.min_lon.v - extremes.max_lon.v

\* what the aspect step added to min_lat, and four times what it took off
\* max_lat, the top of the full-height box min_lat + |max_lon - min_lon| * 3/4
Raised == aspect_box.min_lat.v - extremes.min_lat.v
Lowered4 == 4 * (extremes.min_lat.v - aspect_box.max_lat.v) + 3 * LonSpan

RatioReturned == pc = "returned" /\ NonEmpty /\ Ratio

\* C14 as stated: with a float aspect ratio r = n/4, H = |max_lon -
\* min_lon| * 3/4 and k = 0.5 - r/2 = (4 - n)/8, the aspect step adds H * k
\* to min_lat, then takes |H - H * k| * k off max_lat, and for r # 1 the two
\* amounts differ.
C14_ShiftsDifferUnlessOne ==
    RatioReturned
    => /\ 32 * Raised = 3 * LonSpan * (4 - aspect_ratio.n)
       /\ LET left == 3 * LonSpan - 4 * Raised
              span == IF left >= 0 THEN left ELSE -left
          IN  8 * Lowered4 = span * (4 - aspect_ratio.n)
       /\ aspect_ratio.n # 4 => 4 * Raised # Lowered4

\* C14 amended: the same two shifts; the two amounts differ when r is neither
\* 1 nor -3 and the path has min_lon # max_lon.
C14_ShiftsDiffer ==
    RatioReturned
    => /\ 32 * Raised = 3 * LonSpan * (4 - aspect_ratio.n)
       /\ LET left == 3 * LonSpan - 4 * Raised
              span == IF left >= 0 THEN left ELSE -left
          IN  8 * Lowered4 = span * (4 - aspect_ratio.n)
       /\ (aspect_ratio.n \notin {4, -12} /\ LonSpan # 0)
          => 4 * Raised # Lowered4
       /\ (aspect_ratio.n \in {4, -12} \/ LonSpan = 0)
          => 4 * Raised = Lowered4

C14_Witness ==
    /\ RatioReturned
    /\ aspect_ratio = PyFloat(2)
    /\ Len(lon) = 3
    /\ LonSpan > 0
    /\ Raised > 0
    /\ 4 * Raised > Lowered4 /\ Lowered4 > 0

\* C15: for a non-empty path, any padding >= 0 and 'fit_extremities',
\* 'square' or any float aspect ratio, the box returned has
\* min_lat <= max_lat and min_lon <= max_lon.
C15_BoxWellFormed ==
    (pc = "returned" /\ NonEmpty /\ (FitExtremities \/ Square \/ Ratio))
    => /\ box.min_lat.v <= box.max_lat.v
       /\ box.min_lon.v <= box.max_lon.v

====
